---- MODULE Spec2Model ----
(***************************************************************************)
(* A model of the WebcamCircles component (src/src/app/WebcamCircles.tsx)  *)
(* in its two revisions:                                                   *)
(*   - the stream-capture revision (lines 1-217), variable `stream`,       *)
(*     which records the canvas through a MediaRecorder;                   *)
(*   - the still-image revision (lines 219-429), variable `still`,         *)
(*     which snapshots the canvas on an interval timer.                    *)
(* Each variable is a record holding the component instance: its React     *)
(* state (useState), its refs (useRef), the props it was last rendered     *)
(* with, and the browser objects it created (pending animation-frame       *)
(* callbacks, MediaRecorders, interval timers, object URLs).               *)
(* The variable `pass` is one run of processImageData over a frame, loop   *)
(* iteration by loop iteration; `ev` names the last event.                 *)
(*                                                                         *)
(* React semantics used by the model:                                      *)
(*   - a handler runs against the closures of the last committed render;   *)
(*     the state updates it queues are committed before the next event is  *)
(*     dispatched, so the closures of the next handler see them;           *)
(*   - passive effects (useEffect) run after the commit, in a step of      *)
(*     their own (FlushEffects), and always before the next commit;        *)
(*     animation-frame callbacks may run in between;                       *)
(*   - a state setter called on an unmounted component changes nothing;    *)
(*   - refs to DOM elements and child components are null after unmount.   *)
(***************************************************************************)
EXTENDS Integers, Sequences, FiniteSets, TLC

VARIABLES stream, still, ev, pass

vars == <<stream, still, ev, pass>>

(* ------------------------------ bounds --------------------------------- *)

\* how many times the camera may be toggled (key counts the toggles)
MaxKey == 1
\* how many MediaRecorders a run constructs (stream-capture revision)
MaxRecorders == 2
\* how many chunks the live recorders (frames the live timers) may have
\* delivered when another periodic delivery is made
MaxChunks == 1
\* how many interval timers may exist at once (still-image revision)
MaxTimers == 2
\* the frames and spacings a pass of processImageData is run on
MaxWidth == 5
MaxHeight == 3
MaxSpacing == 3

(* ------------------------- program constants --------------------------- *)

HAVE_NOTHING == 0
HAVE_METADATA == 1
HAVE_ENOUGH_DATA == 4

\* the values the two sliders of the page take in the model; 10 and 12 are
\* the initial values, the range of both sliders is 5..30
InitialCircleSize == 10
InitialSpacing == 12
CircleSizes == {InitialCircleSize, 30}
Spacings == {InitialSpacing, 5}

\* videoConstraints: the ideal (and, in the model, negotiated) frame size
VideoSize == <<640, 480>>
\* a canvas element nobody has sized yet
DefaultCanvas == [width |-> 300, height |-> 150, src |-> -1,
                  circleSize |-> 0, spacing |-> 0]

AlertStart == "Could not start recording. Please try again."
AlertVideo == "Error creating video. Please try again."
AlertSave == "Failed to save recording. Please try again."
\* an exception that leaves the handler uncaught
Uncaught == "uncaught exception"

(* ------------------------------ helpers -------------------------------- *)

\* a handle (request id, timer id, recorder, url) distinct from those in use
FreshId(used) == CHOOSE i \in 1..(Cardinality(used) + 1) : i \notin used

\* setState on a mounted component; on an unmounted one the update is dropped
SetState(c, upd) == IF c.mounted THEN upd ELSE c

\* the start of every event: the alert and the artifact of the previous
\* event are gone (alerted and artifact record what the last event raised
\* and produced; artifact is <<>> or <<the chunks or frames it was built from>>)
Quiet(c) == [c EXCEPT !.alerted = "", !.artifact = <<>>]

(* ----------------------------- render loop ----------------------------- *)
(* A pending animation-frame callback is the processFrame closure of one   *)
(* render: it carries the circleSize and spacing that render was given.    *)

\* processImageData, as far as the loop is concerned: the surface now shows
\* the halftone of a frame of the mounted Webcam (key), drawn with the
\* circleSize and spacing of the closure
ProcessImageData(c, cs, sp) ==
  [width |-> VideoSize[1], height |-> VideoSize[2], src |-> c.key,
   circleSize |-> cs, spacing |-> sp]

\* captureAndProcess without the readyState test (mutant)
CaptureAndProcessUngated(c, cs, sp) ==
  IF c.mounted
    THEN [c EXCEPT !.canvas = ProcessImageData(c, cs, sp)]
    ELSE c

\* captureAndProcess: webcamRef.current and canvasRef.current are read when
\* the tick runs; both are null once the component is unmounted
CaptureAndProcess(c, cs, sp) ==
  IF c.mounted /\ c.readyState = HAVE_ENOUGH_DATA
    THEN [c EXCEPT !.canvas = ProcessImageData(c, cs, sp)]
    ELSE c

\* a request whose id is not kept in animationFrameRef (mutant)
RequestAnimationFrameUntracked(c, cs, sp) ==
  LET id == FreshId({e.id : e \in c.raf})
  IN [c EXCEPT !.raf = @ \cup {[id |-> id, circleSize |-> cs, spacing |-> sp]}]

\* animationFrameRef.current = requestAnimationFrame(processFrame); the id
\* differs from those of the pending callbacks (the id of a callback that
\* ran or was cancelled may come again: every request overwrites the ref)
RequestAnimationFrame(c, cs, sp) ==
  LET id == FreshId({e.id : e \in c.raf})
  IN [c EXCEPT !.raf = @ \cup {[id |-> id, circleSize |-> cs, spacing |-> sp]},
               !.animationFrameRef = id]

\* a processFrame that requests the next callback only after a pass that
\* drew (mutant)
ProcessFrameWhileReady(c, cs, sp) ==
  IF CaptureAndProcess(c, cs, sp) # c
    THEN RequestAnimationFrame(CaptureAndProcess(c, cs, sp), cs, sp)
    ELSE c

\* processFrame of the render with circleSize cs and spacing sp
ProcessFrame(c, cs, sp) ==
  RequestAnimationFrame(CaptureAndProcess(c, cs, sp), cs, sp)

\* the browser runs the pending callback e
Tick(c, e) ==
  ProcessFrame([c EXCEPT !.raf = @ \ {e}], e.circleSize, e.spacing)

\* the dependencies [isVideoReady, processFrame] of the loop's effect;
\* processFrame changes exactly when circleSize or spacing does
LoopDeps(c) ==
  IF c.mounted THEN <<c.isVideoReady, c.circleSize, c.spacing>> ELSE <<>>

\* a cleanup that forgets cancelAnimationFrame (mutant)
LoopCleanupNoCancel(c) ==
  IF c.rev = "still" /\ c.recordingIntervalRef # 0
    THEN [c EXCEPT !.timers = {t \in @ : t.id # c.recordingIntervalRef}]
    ELSE c

\* the cleanup of the loop's effect
LoopCleanup(c) ==
  LET c1 == IF c.animationFrameRef # 0
              THEN [c EXCEPT !.raf = {e \in @ : e.id # c.animationFrameRef}]
              ELSE c
  IN IF c.rev = "still" /\ c1.recordingIntervalRef # 0
       THEN [c1 EXCEPT !.timers = {t \in @ : t.id # c1.recordingIntervalRef}]
       ELSE c1

\* an effect that restarts the loop without running the cleanup of the
\* previous run (mutant)
LoopEffectNoCleanup(c) ==
  IF c.effLoop = LoopDeps(c) THEN c
  ELSE LET c2 == IF c.mounted /\ c.isVideoReady
                   THEN ProcessFrame(c, c.circleSize, c.spacing)
                   ELSE c
       IN [c2 EXCEPT !.effLoop = LoopDeps(c)]

\* the loop's effect, run when its dependencies changed or on unmount
LoopEffect(c) ==
  IF c.effLoop = LoopDeps(c) THEN c
  ELSE LET c1 == LoopCleanup(c)
           c2 == IF c1.mounted /\ c1.isVideoReady
                   THEN ProcessFrame(c1, c1.circleSize, c1.spacing)
                   ELSE c1
       IN [c2 EXCEPT !.effLoop = LoopDeps(c)]

\* the effect on [downloadUrl] (stream-capture revision): its cleanup
\* revokes the URL the effect was set up with
UrlDeps(c) == IF c.mounted THEN c.downloadUrl ELSE 0

UrlEffect(c) ==
  IF c.rev # "stream" \/ c.effUrl = UrlDeps(c) THEN c
  ELSE [c EXCEPT !.urls = {u \in @ : u.id # c.effUrl},
                 !.effUrl = UrlDeps(c)]

FlushEffects(c) == LoopEffect(UrlEffect(c))

EffectsPending(c) == FlushEffects(c) # c

\* an event React renders for: pending passive effects run before the
\* render it causes commits
Flushed(c) == IF c.mounted THEN FlushEffects(c) ELSE c

Dispatch(c) == Quiet(Flushed(c))

\* onLoadedMetadata={handleVideoReady}
HandleVideoReady(c) == SetState(c, [c EXCEPT !.isVideoReady = TRUE])

\* toggleCamera: the Webcam is re-created under the new key and facing mode
ToggleCamera(c) ==
  SetState(c, [c EXCEPT !.facingMode = IF @ = "user" THEN "environment" ELSE "user",
                        !.key = @ + 1,
                        !.readyState = HAVE_NOTHING])

\* the page's sliders
SetCircleSize(c, v) == [c EXCEPT !.circleSize = v]
SetSpacing(c, v) == [c EXCEPT !.spacing = v]

\* the component is torn down
Unmount(c) == [c EXCEPT !.mounted = FALSE]

\* the state of either revision after the first render and its effects
InitLoop(rev) ==
  [rev |-> rev, mounted |-> TRUE, alerted |-> "", artifact |-> <<>>,
   circleSize |-> InitialCircleSize, spacing |-> InitialSpacing,
   isVideoReady |-> FALSE, isRecording |-> FALSE,
   facingMode |-> "user", key |-> 0, readyState |-> HAVE_NOTHING,
   canvas |-> DefaultCanvas, animationFrameRef |-> 0, raf |-> {},
   effLoop |-> <<FALSE, InitialCircleSize, InitialSpacing>>]

(* ------------------------ one pass over a frame ------------------------ *)
(* processImageData(imageData, ctx): imageData is [width, height, data],   *)
(* data the RGBA bytes of the frame in row-major order (index from 0).     *)
(* A pass is [pc, width, height, data, circleSize, spacing, x, y, filled,  *)
(* disks]: pc is "fill" (before fillRect), "row" (at the test of the outer *)
(* loop), "col" (at the test of the inner loop) or "done"; disks is the    *)
(* sequence of the arcs filled so far, each [x, y, radius].  A number that *)
(* need not be an integer (brightness, radius) is a fraction <<n, d>>.     *)

Frac(n) == <<n, 1>>
FracDiv(f, k) == <<f[1], f[2] * k>>
FracMul(f, g) == <<f[1] * g[1], f[2] * g[2]>>
FracEq(f, g) == f[1] * g[2] = g[1] * f[2]

\* the RGBA pixels frames are made of
Black == <<0, 0, 0, 255>>
White == <<255, 255, 255, 255>>
Pixels == {Black, White, <<128, 128, 128, 255>>, <<3, 0, 0, 255>>, <<1, 1, 1, 255>>}

\* getImageData(0, 0, w, h).data of a frame whose pixels are p and q in a
\* checkerboard
ImageData(w, h, p, q) ==
  [width |-> w, height |-> h,
   data |-> [i \in 0..(w * h * 4 - 1) |->
               LET px == i \div 4
               IN IF ((px % w) + (px \div w)) % 2 = 0 THEN p[(i % 4) + 1]
                                                       ELSE q[(i % 4) + 1]]]

\* a brightness that averages the last three bytes of the pixel (mutant)
BrightnessOffByOne(data, i) == FracDiv(Frac(data[i + 1] + data[i + 2] + data[i + 3]), 3)

\* brightness = (data[i] + data[i + 1] + data[i + 2]) / 3
Brightness(data, i) == FracDiv(Frac(data[i] + data[i + 1] + data[i + 2]), 3)

\* radius = (brightness / 255) * (circleSize / 2)
Radius(brightness, circleSize) ==
  FracMul(FracDiv(brightness, 255), FracDiv(Frac(circleSize), 2))

\* a loop step that moves to the next pixel (mutant)
StepByOne(i, spacing) == i + 1

\* the steps y += spacing and x += spacing of the two loops
Step(i, spacing) == i + spacing

\* the tests y < height and x < width of the two loops
LoopTest(i, limit) == i < limit

NoPass ==
  [pc |-> "none", width |-> 0, height |-> 0, data |-> <<>>,
   circleSize |-> 0, spacing |-> 0, x |-> 0, y |-> 0, filled |-> FALSE,
   disks |-> <<>>]

\* the call processImageData(imageData, ctx) with the closure's parameters
BeginPass(imageData, cs, sp) ==
  [NoPass EXCEPT !.pc = "fill", !.width = imageData.width,
                 !.height = imageData.height, !.data = imageData.data,
                 !.circleSize = cs, !.spacing = sp]

(* ----------------------- stream-capture revision ----------------------- *)
(* A MediaRecorder is [id, state, sent, chunks]: state is "recording",     *)
(* "stopping" (stop() was called, the last dataavailable is still to       *)
(* come) or "flushed" (the stop event is still to come); sent counts the   *)
(* non-empty chunks it has delivered; chunks is the recordedChunks array   *)
(* its onstop closure holds.  A recorder whose stop event has fired is     *)
(* inactive for good and leaves the set.  A chunk is <<recorder, number>>. *)
(* Recorders are numbered in the order they are constructed (created      *)
(* counts them); mediaRecorderRef is 0 (null) or the number of a recorder. *)
(* An object URL that is not revoked is [id, blob]: blob is the chunk      *)
(* sequence the Blob was built from.                                       *)

Recorder(c, id) == CHOOSE r \in c.recorders : r.id = id

Delivered(r) == [i \in 1..r.sent |-> <<r.id, i>>]

\* the chunks the live recorders have delivered
AllDelivered(c) == UNION {{<<r.id, i>> : i \in 1..r.sent} : r \in c.recorders}

\* handleStartRecording with the bookkeeping done before the calls that
\* may throw (mutant)
HandleStartRecordingEager(c, outcome) ==
  LET c0 == SetState(c, [c EXCEPT !.downloadUrl = 0])
      id == c.created + 1
      rec == [id |-> id, state |-> "recording", sent |-> 0, chunks |-> <<>>]
      c1 == [c0 EXCEPT !.mediaRecorderRef = id, !.created = id,
                       !.isRecording = TRUE, !.recordedChunks = <<>>]
  IN IF ~c.mounted THEN c0
     ELSE IF outcome = "ok"
       THEN [c1 EXCEPT !.recorders = @ \cup {rec}]
       ELSE [c1 EXCEPT !.alerted = AlertStart]

\* handleStartRecording; outcome is what the browser does with
\* new MediaRecorder(...) and recorder.start(1000)
HandleStartRecording(c, outcome) ==
  LET c0 == SetState(c, [c EXCEPT !.downloadUrl = 0])
      id == c.created + 1
      rec == [id |-> id, state |-> "recording", sent |-> 0, chunks |-> <<>>]
      c1 == [c0 EXCEPT !.recorders = @ \cup {rec}, !.mediaRecorderRef = id,
                       !.created = id]
  IN IF ~c.mounted THEN c0
     ELSE IF outcome = "ok"
       THEN [c1 EXCEPT !.isRecording = TRUE, !.recordedChunks = <<>>]
       ELSE [c0 EXCEPT !.alerted = AlertStart]

\* handleStopRecording that leaves the recording flag to onstop (mutant)
HandleStopRecordingStuck(c) ==
  IF c.mediaRecorderRef # 0 /\ c.isRecording
    THEN IF \E r \in c.recorders : r.id = c.mediaRecorderRef /\ r.state = "recording"
      THEN LET r == Recorder(c, c.mediaRecorderRef)
           IN [c EXCEPT !.recorders = (@ \ {r}) \cup
                 {[r EXCEPT !.state = "stopping", !.chunks = c.recordedChunks]}]
      ELSE [c EXCEPT !.alerted = Uncaught]
    ELSE c

\* handleStopRecording: isRecording and recordedChunks are those of the
\* render the handler was created in; stop() throws on an inactive recorder
HandleStopRecording(c) ==
  IF c.mediaRecorderRef # 0 /\ c.isRecording
    THEN IF \E r \in c.recorders : r.id = c.mediaRecorderRef /\ r.state = "recording"
      THEN LET r == Recorder(c, c.mediaRecorderRef)
               c1 == [c EXCEPT !.recorders = (@ \ {r}) \cup
                        {[r EXCEPT !.state = "stopping",
                                   !.chunks = c.recordedChunks]}]
           IN SetState(c1, [c1 EXCEPT !.isRecording = FALSE])
      ELSE [c EXCEPT !.alerted = Uncaught]
    ELSE c

\* recorder.ondataavailable for recorder r: a chunk of the timeslice while
\* recording, the last chunk after stop(); an empty chunk is dropped
OnDataAvailable(c, r, nonEmpty) ==
  LET r1 == [r EXCEPT !.sent = IF nonEmpty THEN @ + 1 ELSE @,
                      !.state = IF @ = "stopping" THEN "flushed" ELSE @]
      c1 == [c EXCEPT !.recorders = (@ \ {r}) \cup {r1}]
  IN IF nonEmpty
       THEN SetState(c1, [c1 EXCEPT !.recordedChunks = Append(@, <<r.id, r1.sent>>)])
       ELSE c1

\* the onstop closure of recorder r; fails: new Blob or createObjectURL throws
OnStop(c, r, fails) ==
  LET id == FreshId({u.id : u \in c.urls} \cup {c.downloadUrl, c.effUrl})
      url == [id |-> id, blob |-> r.chunks]
      c1 == [c EXCEPT !.recorders = @ \ {r}]
      c2 == [c1 EXCEPT !.urls = @ \cup {url}, !.artifact = <<r.chunks>>]
  IN IF fails THEN [c1 EXCEPT !.alerted = AlertVideo]
     ELSE SetState(c2, [c2 EXCEPT !.downloadUrl = id])

(* ------------------------- still-image revision ------------------------ *)
(* An interval timer is [id, shots]: timers are numbered in the order      *)
(* setInterval creates them (created counts them), shots counts the frames *)
(* the timer has captured.  A frame is <<timer, number>>.                  *)

\* captureFrame, run by timer t; canvasRef.current is null after unmount
CaptureFrame(c, t) ==
  LET t1 == [t EXCEPT !.shots = @ + 1]
      c1 == [c EXCEPT !.timers = (@ \ {t}) \cup {t1}]
  IN IF c.mounted
       THEN [c1 EXCEPT !.frames = Append(@, <<t.id, t1.shots>>)]
       ELSE c

\* handleStartRecording of the still-image revision
HandleStartRecordingStill(c) ==
  LET id == c.created + 1
      c0 == SetState(c, [c EXCEPT !.frames = <<>>, !.isRecording = TRUE])
  IN [c0 EXCEPT !.timers = @ \cup {[id |-> id, shots |-> 0]},
                !.recordingIntervalRef = id,
                !.created = id]

\* handleStopRecording of the still-image revision: frames is that of the
\* render the handler was created in; fails: building or saving the file throws
HandleStopRecordingStill(c, fails) ==
  LET c1 == IF c.recordingIntervalRef # 0
              THEN [c EXCEPT !.timers = {t \in @ : t.id # c.recordingIntervalRef}]
              ELSE c
      c2 == SetState(c1, [c1 EXCEPT !.isRecording = FALSE])
  IN IF Len(c.frames) > 0
       THEN IF fails
         THEN [c2 EXCEPT !.alerted = AlertSave]
         ELSE SetState([c2 EXCEPT !.artifact = <<c.frames>>],
                       [c2 EXCEPT !.artifact = <<c.frames>>, !.frames = <<>>])
       ELSE c2

\* the frames the live timers have captured
AllShots(c) == UNION {{<<t.id, i>> : i \in 1..t.shots} : t \in c.timers}

InitStream ==
  [f \in {"recordedChunks", "mediaRecorderRef", "recorders", "created",
          "downloadUrl", "effUrl", "urls"} |->
     CASE f = "recordedChunks" -> <<>>
       [] f = "recorders" -> {}
       [] f = "urls" -> {}
       [] OTHER -> 0] @@ InitLoop("stream")

InitStill ==
  [f \in {"frames", "recordingIntervalRef", "timers", "created"} |->
     CASE f = "frames" -> <<>>
       [] f = "timers" -> {}
       [] OTHER -> 0] @@ InitLoop("still")

Init ==
  stream = InitStream /\ still = InitStill /\ ev = "init" /\ pass = NoPass

(* --------------------- events of the stream revision ------------------- *)

StreamStart ==
  /\ stream.created < MaxRecorders
  /\ \E outcome \in {"ok", "throws"} :
       /\ outcome = "throws" => stream.mounted
       /\ stream' = HandleStartRecording(Dispatch(stream), outcome)
       /\ ev' = IF outcome = "ok" THEN "start" ELSE "startThrows"
  /\ UNCHANGED <<still, pass>>

StreamStop ==
  /\ stream' = HandleStopRecording(Dispatch(stream))
  /\ ev' = "stop"
  /\ UNCHANGED <<still, pass>>

StreamChunk ==
  /\ \E r \in stream.recorders : \E nonEmpty \in BOOLEAN :
       /\ \/ r.state = "stopping"
          \/ /\ r.state = "recording"
             /\ Cardinality(AllDelivered(stream)) < MaxChunks
       /\ stream' = OnDataAvailable(Dispatch(stream), r, nonEmpty)
       /\ ev' = IF r.state = "stopping" THEN "lastChunk" ELSE "chunk"
  /\ UNCHANGED <<still, pass>>

StreamStopped ==
  /\ \E r \in stream.recorders : \E fails \in BOOLEAN :
       /\ r.state = "flushed"
       /\ stream' = OnStop(Dispatch(stream), r, fails)
       /\ ev' = IF fails THEN "onstopFails" ELSE "onstop"
  /\ UNCHANGED <<still, pass>>

StreamToggle ==
  /\ stream.key < MaxKey
  /\ stream' = ToggleCamera(Dispatch(stream))
  /\ ev' = "toggle"
  /\ UNCHANGED <<still, pass>>

StreamCircleSize ==
  /\ stream.mounted
  /\ \E v \in CircleSizes \ {stream.circleSize} :
       stream' = SetCircleSize(Dispatch(stream), v)
  /\ ev' = "circleSize"
  /\ UNCHANGED <<still, pass>>

StreamSpacing ==
  /\ stream.mounted
  /\ \E v \in Spacings \ {stream.spacing} :
       stream' = SetSpacing(Dispatch(stream), v)
  /\ ev' = "spacing"
  /\ UNCHANGED <<still, pass>>

StreamLoadedMetadata ==
  /\ stream.mounted /\ stream.readyState = HAVE_NOTHING
  /\ stream' = HandleVideoReady([Dispatch(stream) EXCEPT !.readyState = HAVE_METADATA])
  /\ ev' = "loadedmetadata"
  /\ UNCHANGED <<still, pass>>

StreamEnoughData ==
  /\ stream.mounted /\ stream.readyState = HAVE_METADATA
  /\ stream' = [Quiet(stream) EXCEPT !.readyState = HAVE_ENOUGH_DATA]
  /\ ev' = "canplay"
  /\ UNCHANGED <<still, pass>>

StreamTick ==
  /\ \E e \in stream.raf : stream' = Tick(Quiet(stream), e)
  /\ ev' = "tick"
  /\ UNCHANGED <<still, pass>>

StreamEffects ==
  /\ EffectsPending(stream)
  /\ stream' = FlushEffects(Quiet(stream))
  /\ ev' = "effects"
  /\ UNCHANGED <<still, pass>>

StreamUnmount ==
  /\ stream.mounted
  /\ stream' = Unmount(Dispatch(stream))
  /\ ev' = "unmount"
  /\ UNCHANGED <<still, pass>>

\* the recorder and its callbacks, with the render loop running
NextStream ==
  \/ StreamStart \/ StreamStop \/ StreamChunk \/ StreamStopped
  \/ StreamLoadedMetadata \/ StreamEnoughData \/ StreamTick
  \/ StreamEffects \/ StreamUnmount

\* the render loop, the camera and the sliders
NextLoop ==
  \/ StreamToggle \/ StreamCircleSize \/ StreamSpacing
  \/ StreamLoadedMetadata \/ StreamEnoughData \/ StreamTick
  \/ StreamEffects \/ StreamUnmount

SpecLoop == Init /\ [][NextLoop]_vars

\* the render loop under every command of the handle and every change of
\* the parameters (the encoders started here deliver nothing)
NextCommands == NextLoop \/ StreamStart \/ StreamStop

SpecCommands == Init /\ [][NextCommands]_vars

SpecStream == Init /\ [][NextStream]_vars

(* ---------------------- events of the still revision ------------------- *)

StillStart ==
  /\ still.created < MaxTimers
  /\ still' = HandleStartRecordingStill(Dispatch(still))
  /\ ev' = "start"
  /\ UNCHANGED <<stream, pass>>

StillStop ==
  /\ \E fails \in BOOLEAN :
       /\ fails => Len(still.frames) > 0
       /\ still' = HandleStopRecordingStill(Dispatch(still), fails)
       /\ ev' = IF fails THEN "stopFails" ELSE "stop"
  /\ UNCHANGED <<stream, pass>>

StillFrame ==
  /\ Cardinality(AllShots(still)) < MaxChunks
  /\ \E t \in still.timers : still' = CaptureFrame(Dispatch(still), t)
  /\ ev' = "frame"
  /\ UNCHANGED <<stream, pass>>

StillCircleSize ==
  /\ still.mounted
  /\ \E v \in CircleSizes \ {still.circleSize} :
       still' = SetCircleSize(Dispatch(still), v)
  /\ ev' = "circleSize"
  /\ UNCHANGED <<stream, pass>>

StillLoadedMetadata ==
  /\ still.mounted /\ still.readyState = HAVE_NOTHING
  /\ still' = HandleVideoReady([Dispatch(still) EXCEPT !.readyState = HAVE_METADATA])
  /\ ev' = "loadedmetadata"
  /\ UNCHANGED <<stream, pass>>

StillEnoughData ==
  /\ still.mounted /\ still.readyState = HAVE_METADATA
  /\ still' = [Quiet(still) EXCEPT !.readyState = HAVE_ENOUGH_DATA]
  /\ ev' = "canplay"
  /\ UNCHANGED <<stream, pass>>

StillTick ==
  /\ \E e \in still.raf : still' = Tick(Quiet(still), e)
  /\ ev' = "tick"
  /\ UNCHANGED <<stream, pass>>

StillEffects ==
  /\ EffectsPending(still)
  /\ still' = FlushEffects(Quiet(still))
  /\ ev' = "effects"
  /\ UNCHANGED <<stream, pass>>

StillUnmount ==
  /\ still.mounted
  /\ still' = Unmount(Dispatch(still))
  /\ ev' = "unmount"
  /\ UNCHANGED <<stream, pass>>

NextStill ==
  \/ StillStart \/ StillStop \/ StillFrame \/ StillCircleSize
  \/ StillLoadedMetadata \/ StillEnoughData \/ StillTick
  \/ StillEffects \/ StillUnmount

SpecStill == Init /\ [][NextStill]_vars

\* either revision: a run is a run of the stream-capture revision or a run
\* of the still-image revision
Next ==
  \/ still = InitStill /\ NextStream
  \/ stream = InitStream /\ NextStill

Spec == Init /\ [][Next]_vars

(* ------------------------------- claims -------------------------------- *)

\* the encoders that are recording, the timers that are running
Running(c) ==
  IF c.rev = "stream" THEN {r \in c.recorders : r.state = "recording"}
                      ELSE c.timers

\* C1 (as claimed): start while Recording is a no-op: the recording flag,
\* the accumulated chunks and the running encoder are what they were, and
\* no second encoder exists.
C1_StartWhileRecordingIsNoOp ==
  [][(ev' = "start" /\ stream.mounted /\ stream.isRecording) =>
       /\ stream'.isRecording = stream.isRecording
       /\ stream'.recordedChunks = stream.recordedChunks
       /\ stream'.mediaRecorderRef = stream.mediaRecorderRef
       /\ stream'.recorders = stream.recorders]_vars

\* C2 (as claimed): stop while Idle produces no artifact, signals no error
\* and leaves the recording flag and the frame sequence unchanged.
C2_StopWhileIdleIsNoOp ==
  [][(ev' \in {"stop", "stopFails"} /\ still.mounted /\ ~still.isRecording) =>
       /\ still'.artifact = <<>>
       /\ still'.alerted = ""
       /\ still'.isRecording = still.isRecording
       /\ still'.frames = still.frames]_vars

\* C3 (as claimed): the artifact built when the stop event of an encoder
\* fires is the concatenation, in arrival order, of every chunk that
\* encoder delivered, the one delivered after stop() included.
C3_ArtifactHoldsEveryChunk ==
  [][ev' = "onstop" =>
       \A r \in stream.recorders \ stream'.recorders :
         stream'.artifact = <<Delivered(r)>>]_vars

\* C4 (as claimed): at most one encoder is recording at any time, and none
\* is while the controller is Idle and no stop is being finalized.
C4_AtMostOneSession ==
  /\ Cardinality(Running(stream)) <= 1
  /\ (~stream.isRecording /\ \A r \in stream.recorders : r.state = "recording")
       => Running(stream) = {}

\* C5 (as claimed): once the pending effects have run, at most one object
\* URL is unrevoked, and none is after the component is torn down.
C5_UrlsAreReleased ==
  ~EffectsPending(stream) =>
    /\ Cardinality(stream.urls) <= 1
    /\ ~stream.mounted => stream.urls = {}

\* C6 (as claimed): start while the canvas is not available changes nothing
\* (no timer is created, the controller and its frames stay as they were)
\* and signals an error.
C6_StartWithoutSurfaceFails ==
  [][(ev' = "start" /\ ~still.mounted) =>
       /\ still'.timers = still.timers
       /\ still'.isRecording = still.isRecording
       /\ still'.frames = still.frames
       /\ still'.alerted # ""]_vars

\* C7: a failure to assemble the artifact raises the alert and produces
\* nothing, and it does not touch the recording flag; stop always leaves
\* the controller Idle, the flag is raised by start alone, and start is
\* accepted whenever the component is mounted.
C7_AssemblyFailureLeavesIdle ==
  [][/\ ev' = "onstopFails" =>
          /\ stream'.alerted = AlertVideo
          /\ stream'.artifact = <<>>
          /\ stream'.isRecording = stream.isRecording
     /\ ev' = "stopFails" =>
          /\ still'.alerted = AlertSave
          /\ still'.artifact = <<>>
          /\ still.mounted => ~still'.isRecording
     /\ (ev' = "stop" /\ stream.mounted) => ~stream'.isRecording
     /\ (ev' = "stop" /\ still.mounted) => ~still'.isRecording
     /\ (stream'.isRecording /\ ~stream.isRecording) => ev' = "start"
     /\ (still'.isRecording /\ ~still.isRecording) => ev' = "start"
     /\ (ev' = "start" /\ stream.mounted /\ stream' # stream) => stream'.isRecording
     /\ (ev' = "start" /\ still.mounted /\ still' # still) => still'.isRecording
    ]_vars

\* the stop event of a stopped encoder has failed to build the artifact:
\* the alert is up and the controller is Idle
C7_Witness ==
  /\ ev = "onstopFails"
  /\ stream.mounted /\ stream.alerted = AlertVideo /\ ~stream.isRecording

\* C8: when creating or starting the encoder throws, the alert is raised,
\* the recording flag, the retained encoder and the set of encoders are
\* what they were, nothing is produced, and the pending tick, the request
\* id and the canvas of the render loop are as the effects that were
\* pending before the call leave them.
C8_StartFailureIsContained ==
  [][ev' = "startThrows" =>
       /\ stream'.alerted = AlertStart
       /\ stream'.artifact = <<>>
       /\ stream'.isRecording = stream.isRecording
       /\ stream'.mediaRecorderRef = stream.mediaRecorderRef
       /\ stream'.recorders = stream.recorders
       /\ stream'.created = stream.created
       /\ stream'.raf = Flushed(stream).raf
       /\ stream'.animationFrameRef = Flushed(stream).animationFrameRef
       /\ stream'.canvas = Flushed(stream).canvas]_vars

\* a start has thrown while Idle with the render loop drawing: no encoder
\* is retained and the next tick is pending
C8_Witness ==
  /\ ev = "startThrows"
  /\ stream.alerted = AlertStart /\ ~stream.isRecording
  /\ stream.mediaRecorderRef = 0 /\ stream.recorders = {}
  /\ stream.raf # {} /\ stream.canvas.src = stream.key

\* C9: the surface changes only by a pass over a frame of the Webcam that
\* is mounted at that moment, and only when that Webcam has enough data;
\* toggling leaves the pending tick pending, and every tick schedules the
\* next one.
C9_TicksDrawFromMountedSource ==
  [][/\ stream'.canvas # stream.canvas =>
          /\ stream.readyState = HAVE_ENOUGH_DATA
          /\ stream'.canvas.src = stream.key
     /\ ev' = "toggle" => stream'.raf = Flushed(stream).raf
     /\ ev' = "tick" => stream'.raf # {}
    ]_vars

\* a tick after a toggle has drawn a frame of the new Webcam
C9_Witness ==
  /\ ev = "tick"
  /\ stream.key > 0 /\ stream.canvas.src = stream.key

\* C10: once the effect of the last commit has run, every pending tick is
\* bound to the committed circleSize and spacing, and a tick that draws
\* then draws with them.
C10_TicksUseCommittedParameters ==
  /\ [](~EffectsPending(stream) =>
          \A e \in stream.raf :
            e.circleSize = stream.circleSize /\ e.spacing = stream.spacing)
  /\ [][(ev' = "tick" /\ ~EffectsPending(stream)
           /\ stream'.canvas # stream.canvas) =>
          /\ stream'.canvas.circleSize = stream.circleSize
          /\ stream'.canvas.spacing = stream.spacing]_vars

\* both sliders were moved and a tick has drawn with the new values
C10_Witness ==
  /\ ev = "tick" /\ ~EffectsPending(stream)
  /\ stream.circleSize # InitialCircleSize /\ stream.spacing # InitialSpacing
  /\ stream.canvas.circleSize = stream.circleSize
  /\ stream.canvas.spacing = stream.spacing

\* s is a prefix of t
IsPrefix(s, t) == Len(s) <= Len(t) /\ SubSeq(t, 1, Len(s)) = s

\* C11 (as claimed): from start to the finalization of the matching stop
\* the chunk (frame) sequence only grows at its end: while an encoder of
\* the session exists (stream-capture revision), or while the controller
\* is Recording and the step is not the stop that finalizes (still-image
\* revision), the sequence before a step is a prefix of the sequence after.
C11_ChunksOnlyAppend ==
  [][/\ stream.recorders # {} =>
          IsPrefix(stream.recordedChunks, stream'.recordedChunks)
     /\ (still.isRecording /\ ev' \notin {"stop", "stopFails"}) =>
          IsPrefix(still.frames, still'.frames)]_vars

\* C12 (as claimed): when a stop issued in Recording has completed (the
\* stop event of the encoder has assembled the artifact; the stop handler
\* of the still-image revision has returned without failing), the
\* controller is Idle and the chunk (frame) sequence is empty.
C12_StopCompletedIsIdleAndEmpty ==
  [][/\ (ev' = "onstop" /\ stream.mounted) =>
          /\ ~stream'.isRecording
          /\ stream'.recordedChunks = <<>>
     /\ (ev' = "stop" /\ still.mounted /\ still.isRecording) =>
          /\ ~still'.isRecording
          /\ still'.frames = <<>>]_vars

(* --------------------- the steps of one render pass -------------------- *)

\* ctx.fillStyle = 'black'; ctx.fillRect(0, 0, width, height); y = 0
PassFill ==
  /\ pass.pc = "fill"
  /\ pass' = [pass EXCEPT !.filled = TRUE, !.disks = <<>>, !.y = 0, !.pc = "row"]
  /\ ev' = "fill"
  /\ UNCHANGED <<stream, still>>

\* the test of the outer loop: enter the row (x = 0) or leave the function
PassRow ==
  /\ pass.pc = "row"
  /\ pass' = IF LoopTest(pass.y, pass.height)
               THEN [pass EXCEPT !.x = 0, !.pc = "col"]
               ELSE [pass EXCEPT !.pc = "done"]
  /\ ev' = "row"
  /\ UNCHANGED <<stream, still>>

\* the test of the inner loop: its body samples the pixel at (x, y) and
\* fills the arc, then x += spacing; at the end of the row y += spacing
PassCol ==
  /\ pass.pc = "col"
  /\ pass' = IF LoopTest(pass.x, pass.width)
       THEN LET i == (pass.y * pass.width + pass.x) * 4
                brightness == Brightness(pass.data, i)
                radius == Radius(brightness, pass.circleSize)
            IN [pass EXCEPT
                  !.disks = Append(@, [x |-> pass.x, y |-> pass.y, radius |-> radius]),
                  !.x = Step(@, pass.spacing)]
       ELSE [pass EXCEPT !.y = Step(@, pass.spacing), !.pc = "row"]
  /\ ev' = "col"
  /\ UNCHANGED <<stream, still>>

InitPass ==
  /\ stream = InitStream /\ still = InitStill /\ ev = "init"
  /\ \E w \in 1..MaxWidth, h \in 1..MaxHeight, sp \in 1..MaxSpacing,
        cs \in CircleSizes, p \in Pixels, q \in Pixels :
       pass = BeginPass(ImageData(w, h, p, q), cs, sp)

NextPass == PassFill \/ PassRow \/ PassCol

SpecPass == InitPass /\ [][NextPass]_vars

(* ------------------- the two revisions, command by command ------------- *)
(* The same commands are sent to an instance of each revision; their      *)
(* encoders and timers deliver on their own.  The platform calls of the   *)
(* handlers succeed here: the runs differ by the commands alone.          *)

BothStart ==
  /\ stream.created < MaxRecorders /\ still.created < MaxTimers
  /\ stream' = HandleStartRecording(Dispatch(stream), "ok")
  /\ still' = HandleStartRecordingStill(Dispatch(still))
  /\ ev' = "start"
  /\ UNCHANGED pass

BothStop ==
  /\ stream' = HandleStopRecording(Dispatch(stream))
  /\ still' = HandleStopRecordingStill(Dispatch(still), FALSE)
  /\ ev' = "stop"
  /\ UNCHANGED pass

BothUnmount ==
  /\ stream.mounted /\ still.mounted
  /\ stream' = Unmount(Dispatch(stream))
  /\ still' = Unmount(Dispatch(still))
  /\ ev' = "unmount"
  /\ UNCHANGED pass

NextBoth ==
  \/ BothStart \/ BothStop \/ BothUnmount
  \/ StreamChunk \/ StreamStopped \/ StreamEffects
  \/ StillFrame \/ StillEffects

SpecBoth == Init /\ [][NextBoth]_vars

\* the command changed nothing in the instance
NoOp(c, d) == d = Dispatch(c)

\* C13 (as claimed): after every start or stop command sent to both
\* revisions they are both Idle or both Recording, and the command was a
\* no-op for both or for neither.
C13_SameStateMachine ==
  [][ev' \in {"start", "stop"} =>
       /\ stream'.isRecording = still'.isRecording
       /\ NoOp(stream, stream') = NoOp(still, still')]_vars

Ceil(a, b) == (a + b - 1) \div b

\* C14: a finished pass has filled the surface and drawn exactly
\* ceil(W/s) * ceil(H/s) disks, one at each point (x, y) of the frame whose
\* coordinates are multiples of the spacing s, and none elsewhere.
C14_GridPoints ==
  pass.pc = "done" =>
    /\ pass.filled
    /\ Len(pass.disks) = Ceil(pass.width, pass.spacing) * Ceil(pass.height, pass.spacing)
    /\ {<<pass.disks[k].x, pass.disks[k].y>> : k \in 1..Len(pass.disks)} =
         {pt \in (0..(pass.width - 1)) \X (0..(pass.height - 1)) :
            pt[1] % pass.spacing = 0 /\ pt[2] % pass.spacing = 0}
    /\ Cardinality({<<pass.disks[k].x, pass.disks[k].y>> : k \in 1..Len(pass.disks)})
         = Len(pass.disks)

\* a pass has finished on a frame wider and higher than the spacing, whose
\* width is not a multiple of the spacing
C14_Witness ==
  /\ pass.pc = "done"
  /\ pass.spacing > 1 /\ pass.width % pass.spacing # 0
  /\ pass.width > pass.spacing /\ pass.height > pass.spacing
  /\ Len(pass.disks) > pass.width \div pass.spacing

\* R + G + B of the pixel at (x, y), as getImageData lays the frame out
PixelSum(x, y) ==
  LET i == (y * pass.width + x) * 4
  IN pass.data[i] + pass.data[i + 1] + pass.data[i + 2]

\* the points a pass samples
Sampled ==
  {pt \in (0..(pass.width - 1)) \X (0..(pass.height - 1)) :
     pt[1] % pass.spacing = 0 /\ pt[2] % pass.spacing = 0}

\* C15: when all sampled pixels have the same brightness b = sum/3 (that
\* of the pixel at (0, 0), which every pass samples), every
\* disk drawn so far has radius (b/255) * (circleSize/2), wherever it is;
\* brightness 0 gives radius 0, brightness 255 with circleSize 30 gives 15.
C15_UniformRadius ==
  LET sum == PixelSum(0, 0)
  IN (pass.pc # "none" /\ \A pt \in Sampled : PixelSum(pt[1], pt[2]) = sum) =>
       \A k \in 1..Len(pass.disks) :
         /\ FracEq(pass.disks[k].radius, <<sum * pass.circleSize, 3 * 255 * 2>>)
         /\ sum = 0 => FracEq(pass.disks[k].radius, Frac(0))
         /\ (sum = 3 * 255 /\ pass.circleSize = 30) =>
              FracEq(pass.disks[k].radius, Frac(15))

\* a pass has finished on a frame of uniform brightness made of two
\* different pixels, both of them sampled
C15_Witness ==
  /\ pass.pc = "done" /\ Len(pass.disks) > 1
  /\ PixelSum(0, 0) > 0
  /\ \A pt \in Sampled : PixelSum(pt[1], pt[2]) = PixelSum(0, 0)
  /\ \E pt \in Sampled : pass.data[(pt[2] * pass.width + pt[1]) * 4] # pass.data[0]

\* C16: at most one callback of the render loop is pending at any time,
\* and a tick runs the one pending callback and leaves exactly one, the
\* successor it requested after its pass.
C16_OneTickInFlight ==
  /\ [](Cardinality(stream.raf) <= 1)
  /\ [][ev' = "tick" =>
          /\ stream.raf = {[id |-> stream.animationFrameRef,
                            circleSize |-> e.circleSize,
                            spacing |-> e.spacing] : e \in stream.raf}
          /\ Cardinality(stream'.raf) = 1
          /\ \A e \in stream'.raf : e.id = stream'.animationFrameRef]_vars

\* the loop ticks while Recording after the camera was toggled and a
\* slider was moved
C16_Witness ==
  /\ ev = "tick" /\ stream.isRecording /\ stream.key > 0
  /\ stream.circleSize # InitialCircleSize
  /\ Cardinality(stream.raf) = 1

\* the component is torn down and the cleanup of its effects has run
TornDown(c) == ~c.mounted /\ ~EffectsPending(c)

\* C17: once the cleanup of the loop's effect has run on unmount, no
\* callback of the render loop is pending, none becomes pending and no
\* tick runs, whether or not a tick ran between the unmount and the cleanup.
C17_TeardownCancelsLoop ==
  /\ [](TornDown(stream) => stream.raf = {})
  /\ [][TornDown(stream) =>
          /\ ev' # "tick"
          /\ stream'.raf = {}
          /\ stream'.canvas = stream.canvas
          /\ TornDown(stream')]_vars

\* a loop that was drawing has been torn down by the cleanup
C17_Witness ==
  /\ ev = "effects" /\ TornDown(stream)
  /\ stream.animationFrameRef # 0 /\ stream.canvas.src = stream.key
  /\ stream.raf = {}

\* the source has a frame for captureAndProcess: webcamRef.current and its
\* video exist and the video has enough data
FrameReady(c) == c.mounted /\ c.readyState = HAVE_ENOUGH_DATA

\* C18: a tick that finds no frame ready leaves the canvas (dimensions and
\* picture) as it was and requests the next tick.
C18_TickWithoutFrameIsNoOp ==
  [][(ev' = "tick" /\ ~FrameReady(stream)) =>
       /\ stream'.canvas = stream.canvas
       /\ Cardinality(stream'.raf) = 1
       /\ \A e \in stream'.raf :
            /\ e.id = stream'.animationFrameRef
            /\ \E d \in stream.raf :
                 e.circleSize = d.circleSize /\ e.spacing = d.spacing]_vars

\* after a toggle a tick has found the new Webcam without a frame: the
\* canvas still shows the frame of the previous Webcam and a tick is pending
C18_Witness ==
  /\ ev = "tick" /\ stream.mounted /\ stream.readyState # HAVE_ENOUGH_DATA
  /\ stream.canvas.width = VideoSize[1]
  /\ stream.canvas.src # stream.key
  /\ stream.raf # {}

\* C19 (as claimed): in the still-image revision a snapshot timer is
\* running whenever the controller is Recording, whatever happened to
\* circleSize, spacing or the video since start.
C19_TimerRunsWhileRecording ==
  (still.mounted /\ still.isRecording) => still.timers # {}

\* C20 (as claimed): in the stream-capture revision no download resource
\* is exposed while the controller is Recording.
C20_NoDownloadWhileRecording ==
  (stream.mounted /\ stream.isRecording) => stream.downloadUrl = 0

====
